---- MODULE Spec2Model ----
(***************************************************************************)
(* Device status resolution (blocking.rs) and the greedy device-file       *)
(* allocation of find_devices_in (find.rs).                                *)
(*                                                                         *)
(* A process lists the devices, probes every device file of every device  *)
(* (get_status_all inside expand_status), and then runs find_devices_in   *)
(* on the resulting occupancy snapshot, one request slot per step.        *)
(*                                                                         *)
(* Spec         one call of find_devices, other consumers free to come    *)
(*              and go between the probes.                                 *)
(* SpecCalls    find_devices_in called again and again on one snapshot.   *)
(* SpecRace     two processes calling find_devices on one device while a  *)
(*              known set of its files is held open.                       *)
(* SpecBuilder  requests built with DeviceConfig and its builder.         *)
(***************************************************************************)
EXTENDS Integers, Sequences, FiniteSets, TLC

\* ------------------------------------------------------------------ bounds
\* Cores of all devices together and device files of all devices together.
MaxCores == 3
MaxFiles == 3

\* --------------------------------------------------------------- utilities
Range(s) == {s[i] : i \in DOMAIN s}

\* ---------------------------------------------------------------- topology
Arch == {"Warboy", "Renegade"}

DeviceMode == {"Single", "Fusion", "MultiCore"}

\* The contiguous core list lo..hi.
CoreRange(lo, hi) == [k \in 1..(hi - lo + 1) |-> lo + k - 1]

\* The device files a device with cores 0..n-1 can expose: the whole-device
\* file (npuX, no index list), one file per core (npuXpeC) and one file per
\* contiguous group of cores (npuXpeL-H).
FileKinds(idx, n) ==
    {[device_index |-> idx, indices |-> <<>>, mode |-> "MultiCore"]}
    \cup {[device_index |-> idx, indices |-> CoreRange(c, c), mode |-> "Single"] :
             c \in 0..(n - 1)}
    \cup {[device_index |-> idx, indices |-> CoreRange(r[1], r[2]), mode |-> "Fusion"] :
             r \in {q \in (0..(n - 1)) \X (0..(n - 1)) : q[1] < q[2]}}

\* Discovery order of the files of one device, the order of their paths:
\* npu0 < npu0pe0 < npu0pe0-1 < npu0pe1.
FileBefore(f, g) ==
    \/ f.indices = <<>>
    \/ /\ g.indices # <<>>
       /\ \/ f.indices[1] < g.indices[1]
          \/ f.indices[1] = g.indices[1] /\ Len(f.indices) <= Len(g.indices)

RECURSIVE SortFiles(_)
SortFiles(S) ==
    IF S = {} THEN <<>>
    ELSE LET f == CHOOSE g \in S : \A h \in S : FileBefore(g, h)
         IN  <<f>> \o SortFiles(S \ {f})

\* One device: index, architecture, cores 0..n-1 and its files in order.
Device(idx, arch, n, files) ==
    [device_index |-> idx, arch |-> arch, cores |-> CoreRange(0, n - 1),
     dev_files |-> SortFiles(files)]

\* The devices that can sit at index idx with at most maxn cores and at most
\* maxk files: any architecture and any non-empty set of files over its cores.
DevicesAt(idx, maxn, maxk) ==
    UNION {{Device(idx, a, n, fs) :
                a \in Arch,
                fs \in {g \in SUBSET FileKinds(idx, n) : g # {} /\ Cardinality(g) <= maxk}} :
              n \in 1..maxn}

RECURSIVE TotalFiles(_)
TotalFiles(devs) ==
    IF devs = <<>> THEN 0
    ELSE Len(devs[1].dev_files) + TotalFiles(Tail(devs))

RECURSIVE TotalCores(_)
TotalCores(devs) ==
    IF devs = <<>> THEN 0
    ELSE Len(devs[1].cores) + TotalCores(Tail(devs))

\* What list_devices can return: devices sorted by index (blocking.rs:38),
\* here with indices 0, 1, ... and within the bounds on cores and files.
RECURSIVE TopologiesOfLen(_)
TopologiesOfLen(len) ==
    IF len = 0 THEN {<<>>}
    ELSE UNION {{Append(t, d) :
                    d \in DevicesAt(len - 1, MaxCores - TotalCores(t),
                                    MaxFiles - TotalFiles(t))} :
                  t \in TopologiesOfLen(len - 1)}

Topologies == UNION {TopologiesOfLen(len) : len \in 0..MaxCores}

\* The two Warboy devices of the test directory, each with its two
\* single-core files and its fused file: npu0pe0, npu0pe0-1, npu0pe1,
\* npu1pe0, npu1pe0-1, npu1pe1.
TestTopology ==
    [i \in 1..2 |->
        Device(i - 1, "Warboy", 2,
               {f \in FileKinds(i - 1, 2) : f.mode \in {"Single", "Fusion"}})]

\* One device whose core-group files overlap: the cores 0..4 each with their
\* Single file, the whole-device file, and the groups 0-3, 1-2 and 3-4.
OverlapTopology ==
    <<Device(0, "Warboy", 5,
             {f \in FileKinds(0, 5) :
                 \/ f.mode \in {"Single", "MultiCore"}
                 \/ f.indices \in {<<0, 1, 2, 3>>, <<1, 2>>, <<3, 4>>}})>>

\* ------------------------------------------------------------- core status
Available == [occupied |-> FALSE, by |-> <<>>]

Occupied(name) == [occupied |-> TRUE, by |-> name]

\* Display of a device file: npu{device}[pe{lo}[-{hi}]].
to_string(f) ==
    IF f.indices = <<>> THEN <<f.device_index>>
    ELSE IF Len(f.indices) = 1 THEN <<f.device_index, f.indices[1]>>
    ELSE <<f.device_index, f.indices[1], f.indices[Len(f.indices)]>>

is_multicore(f) == f.mode = "MultiCore"

new_status_map(device) == [c \in Range(device.cores) |-> Available]

\* ------------------------------------------------------------------ probes
\* The raw OS error code of "resource busy".
EBUSY == 16

\* Outcomes of OpenOptions::new().read(true).write(true).open(path): the
\* open succeeds, or fails with an error whose raw OS code is Some(code)
\* (<<code>>; 2 is "no such file") or None (<<>>).
OpenResults ==
    {[ok |-> TRUE, raw |-> <<>>],
     [ok |-> FALSE, raw |-> <<EBUSY>>],
     [ok |-> FALSE, raw |-> <<2>>],
     [ok |-> FALSE, raw |-> <<>>]}

unwrap_or(opt, dflt) == IF opt = <<>> THEN dflt ELSE opt[1]

\* What opening a device file can give: other consumers that come and go
\* allow every outcome; with the held files known the open succeeds on a free
\* file, fails with EBUSY on a held one, or fails with another error.
OpenOutcomes(tracked, held, file) ==
    IF ~tracked THEN OpenResults
    ELSE {r \in OpenResults :
             /\ r.ok => file \notin held
             /\ (~r.ok /\ r.raw = <<EBUSY>>) => file \in held}

\* AfterOpen with the opened file kept open by the prober.
AfterOpenKept(e, file, res) ==
    IF e.tracked /\ res.ok THEN [e EXCEPT !.held = @ \cup {file}] ELSE e

\* blocking.rs:93: the opened file is dropped at once, so a probe leaves the
\* held files as they were.
AfterOpen(e, file, res) == e

\* get_device_status reading EBUSY as a free file.
get_device_status_never_busy(res) ==
    IF res.ok \/ unwrap_or(res.raw, 0) = EBUSY
    THEN [err |-> FALSE, status |-> "Available", raw |-> <<>>]
    ELSE [err |-> TRUE, status |-> "Error", raw |-> res.raw]

\* get_device_status reading every failed open as Occupied.
get_device_status_any_error(res) ==
    IF res.ok THEN [err |-> FALSE, status |-> "Available", raw |-> <<>>]
    ELSE [err |-> FALSE, status |-> "Occupied", raw |-> <<>>]

get_device_status(res) ==
    IF res.ok THEN [err |-> FALSE, status |-> "Available", raw |-> <<>>]
    ELSE IF unwrap_or(res.raw, 0) = EBUSY
         THEN [err |-> FALSE, status |-> "Occupied", raw |-> <<>>]
         ELSE [err |-> TRUE, status |-> "Error", raw |-> res.raw]

\* MarkedCores without the chained cores of the device.
MarkedCoresIndicesOnly(device, file) == Range(file.indices)

\* The cores one busy file marks: its own index list, chained with every core
\* of the device when the file is the whole-device file.
MarkedCores(device, file) ==
    Range(file.indices) \cup (IF is_multicore(file) THEN Range(device.cores) ELSE {})

\* LocalMap handing every call the map of one process.
SharedMap(maps, p) == maps[CHOOSE q \in DOMAIN maps : TRUE]

\* blocking.rs:105: the map a get_status_all call fills is its own local.
LocalMap(maps, p) == maps[p]

\* MarkFile keeping the occupant a core already has.
MarkFileKeepFirst(map, device, file, status) ==
    IF status = "Occupied"
    THEN [c \in DOMAIN map |->
            IF c \in MarkedCores(device, file) /\ map[c] = Available
            THEN Occupied(to_string(file)) ELSE map[c]]
    ELSE map

\* MarkFile rebuilding the map from this file alone.
MarkFileReset(map, device, file, status) ==
    IF status = "Occupied"
    THEN [c \in DOMAIN map |->
            IF c \in MarkedCores(device, file) THEN Occupied(to_string(file)) ELSE Available]
    ELSE map

\* One iteration of the loop of get_status_all on a probe that did not fail.
MarkFile(map, device, file, status) ==
    IF status = "Occupied"
    THEN [c \in DOMAIN map |->
            IF c \in MarkedCores(device, file) THEN Occupied(to_string(file)) ELSE map[c]]
    ELSE map

\* ---------------------------------------------------------------- requests
\* How many mode overrides one builder chain gets, and the largest count asked.
MaxOverrides == 4
MaxRequested == 3

\* warboy starting in the Fusion mode.
warboy_fused == [arch |-> "Warboy", mode |-> "Fusion", count |-> 1]

warboy == [arch |-> "Warboy", mode |-> "Single", count |-> 1]

multicore(b) == [b EXCEPT !.mode = "MultiCore"]

fused(b) == [b EXCEPT !.mode = "Fusion"]

count(b, n) == [b EXCEPT !.count = n]

build(b) == b

DefaultConfig == count(fused(warboy), 1)

Builders ==
    LET step(B) == B \cup {multicore(b) : b \in B} \cup {fused(b) : b \in B}
    IN  step(step({warboy}))

\* The largest count requested on a topology: one more than it has files.
MaxCount(devs) == TotalFiles(devs) + 1

\* The requests made on a topology.
Configs(devs) ==
    {count(b, n) : b \in Builders, n \in 0..MaxCount(devs)}
    \cup {build(b) : b \in Builders} \cup {DefaultConfig}

\* -------------------------------------------------------------- allocation
\* The orders in which the entries of a hash map with the keys S can come.
IterationOrders(S) ==
    {o \in [1..Cardinality(S) -> S] : \A a, b \in DOMAIN o : o[a] = o[b] => a = b}

\* One iteration order of the status map of every device of the list.
StatusOrders(devs) ==
    {o \in [DOMAIN devs ->
               UNION {IterationOrders(DOMAIN devs[i].statuses) : i \in DOMAIN devs}] :
        \A i \in DOMAIN devs : o[i] \in IterationOrders(DOMAIN devs[i].statuses)}

\* SeedAllocated starting every device with an empty committed set.
SeedAllocatedEmpty(devs, order) ==
    [idx \in {devs[i].device.device_index : i \in DOMAIN devs} |-> {}]

\* SeedAllocated stopping at the first non-Available entry it meets.
SeedAllocatedFirstOnly(devs, order) ==
    [idx \in {devs[i].device.device_index : i \in DOMAIN devs} |->
        LET i == CHOOSE k \in DOMAIN devs : devs[k].device.device_index = idx
            busy(c) == devs[i].statuses[c] # Available
            met == SelectSeq(order[i], busy)
        IN  IF met = <<>> THEN {} ELSE {met[1]}]

\* Lines 82-94: the committed cores of every device, seeded from the snapshot:
\* the status map is iterated in its order, filtered and collected into a set.
SeedAllocated(devs, order) ==
    [idx \in {devs[i].device.device_index : i \in DOMAIN devs} |->
        LET i == CHOOSE k \in DOMAIN devs : devs[k].device.device_index = idx
            busy(c) == devs[i].statuses[c] # Available
        IN  Range(SelectSeq(order[i], busy))]

\* NewFound starting from what an earlier call left.
NewFoundKept(left) == left

\* Line 96: the list of selected files is a new vector in every call.
NewFound(left) == <<>>

\* DeviceScanned without the early exit for MultiCore requests.
DeviceScannedNoEarlyExit(cfg, alloc, device) == cfg.arch = device.arch

\* DeviceScanned without the architecture check.
DeviceScannedAnyArch(cfg, alloc, device) ==
    ~(cfg.mode = "MultiCore" /\ alloc[device.device_index] # {})

\* Lines 100-108: the device is scanned for this slot.
DeviceScanned(cfg, alloc, device) ==
    /\ cfg.arch = device.arch
    /\ ~(cfg.mode = "MultiCore" /\ alloc[device.device_index] # {})

\* FileSuitable checking only the first index of the file.
FileSuitableFirstIndex(cfg, alloc, file) ==
    /\ file.mode = cfg.mode
    /\ file.indices # <<>> => file.indices[1] \notin alloc[file.device_index]

\* FileSuitable without the mode filter.
FileSuitableAnyMode(cfg, alloc, file) ==
    \A k \in DOMAIN file.indices : file.indices[k] \notin alloc[file.device_index]

\* Lines 110-119: the file passes the mode filter and none of its indices is
\* committed.
FileSuitable(cfg, alloc, file) ==
    /\ file.mode = cfg.mode
    /\ \A k \in DOMAIN file.indices : file.indices[k] \notin alloc[file.device_index]

\* The (device position, file position) pairs the scan of one slot accepts.
Candidates(cfg, alloc, devs) ==
    UNION {{<<i, j>> :
               j \in {k \in DOMAIN devs[i].device.dev_files :
                         FileSuitable(cfg, alloc, devs[i].device.dev_files[k])}} :
             i \in {h \in DOMAIN devs : DeviceScanned(cfg, alloc, devs[h].device)}}

\* FirstFit taking the last accepted pair instead of the first.
LastFit(S) ==
    CHOOSE x \in S : \A y \in S : x[1] > y[1] \/ (x[1] = y[1] /\ x[2] >= y[2])

\* The first accepted pair in scan order: devices in list order, then files.
FirstFit(S) ==
    CHOOSE x \in S : \A y \in S : x[1] < y[1] \/ (x[1] = y[1] /\ x[2] <= y[2])

\* Commit without the whole-device extension for a MultiCore file.
CommitIndicesOnly(alloc, device, file) ==
    [alloc EXCEPT ![device.device_index] = @ \cup Range(file.indices)]

\* Commit taking every core of the device, whatever the file.
CommitWholeDevice(alloc, device, file) ==
    [alloc EXCEPT ![device.device_index] = @ \cup Range(device.cores)]

\* Lines 123-127: the committed set of the chosen file's device grows.
Commit(alloc, device, file) ==
    [alloc EXCEPT ![device.device_index] =
        (@ \cup Range(file.indices))
        \cup (IF is_multicore(file) THEN Range(device.cores) ELSE {})]

\* SlotsLeft with an inclusive upper end of the range.
SlotsLeftInclusive(cfg, selected) == Len(selected) <= cfg.count

\* Line 98: the slot loop runs once per requested file, for _ in 0..count.
SlotsLeft(cfg, selected) == Len(selected) < cfg.count

\* AbortResult returning what was selected so far.
AbortResultPartial(selected) == selected

\* Line 131: no device file fits the slot; what was selected is dropped.
AbortResult(selected) == <<>>

\* ------------------------------------------------------------------- state
Procs == {"p1", "p2"}

VARIABLES
    devices,      \* what list_devices returns: the topology
    pc,           \* per process: where it is
    config,       \* per process: the request given to find_devices_in
    probed,       \* per process: the open results of this call, per device
    status_map,   \* per process: the map get_status_all is filling
    new_devices,  \* per process: the DeviceWithStatus list of expand_status
    allocated,    \* per process: committed cores per device index
    found,        \* per process: the files selected so far
    result,       \* per process: what the call returned
    prev,         \* per process: request and outcome of its previous call
    env,          \* the device files other consumers hold open
    request       \* a request under construction with the builder

vars == <<devices, pc, config, probed, status_map, new_devices, allocated, found,
          result, prev, env, request>>

NoResult == [kind |-> "None", files |-> <<>>, raw |-> <<>>]

Ok(files) == [kind |-> "Ok", files |-> files, raw |-> <<>>]

Err(raw) == [kind |-> "Err", files |-> <<>>, raw |-> raw]

\* No earlier call of find_devices_in.
NoCall == [called |-> FALSE, config |-> warboy, result |-> NoResult]

\* Other consumers open and close device files at any time.
AnyConsumers == [tracked |-> FALSE, held |-> {}]

\* Exactly the files of the set are held open, from before the first probe on.
Holding(files) == [tracked |-> TRUE, held |-> files]

\* No request is being built.
NoBuilder == [state |-> "none", value |-> warboy, calls |-> <<>>]

InitProc(active) ==
    /\ pc = [p \in Procs |-> IF p \in active THEN "idle" ELSE "off"]
    /\ config = [p \in Procs |-> warboy]
    /\ probed = [p \in Procs |-> <<>>]
    /\ status_map = [p \in Procs |-> <<>>]
    /\ new_devices = [p \in Procs |-> <<>>]
    /\ allocated = [p \in Procs |-> <<>>]
    /\ found = [p \in Procs |-> <<>>]
    /\ result = [p \in Procs |-> NoResult]
    /\ prev = [p \in Procs |-> NoCall]

Init ==
    /\ devices \in Topologies \cup {TestTopology, OverlapTopology}
    /\ InitProc({"p1"})
    /\ env = AnyConsumers
    /\ request = NoBuilder

\* The device files held open: those of other consumers, and those a process
\* of the model acquired after its call returned them.
HeldFiles ==
    env.held \cup UNION {Range(result[q].files) : q \in {r \in Procs : pc[r] = "acquired"}}

\* The device and the file the resolver of p is about to probe.
CurDev(p) == Len(new_devices[p]) + 1

CurFile(p) == Len(probed[p][CurDev(p)]) + 1

\* blocking.rs:75-84, entry: expand_status(list_devices()?) starts on the
\* first device, returns at once on an empty list, and a failing listing is
\* returned as the error.
ExpandStatus(p) ==
    /\ pc[p] = "idle"
    /\ \E listed \in BOOLEAN :
        IF ~listed
        THEN /\ pc' = [pc EXCEPT ![p] = "failed"]
             /\ result' = [result EXCEPT ![p] = Err(<<2>>)]
             /\ UNCHANGED <<probed, status_map>>
        ELSE /\ probed' = [probed EXCEPT ![p] = [i \in DOMAIN devices |-> <<>>]]
             /\ IF devices = <<>>
                THEN /\ pc' = [pc EXCEPT ![p] = "resolved"]
                     /\ UNCHANGED status_map
                ELSE /\ pc' = [pc EXCEPT ![p] = "probe"]
                     /\ status_map' = [status_map EXCEPT ![p] = new_status_map(devices[1])]
             /\ UNCHANGED result
    /\ UNCHANGED <<devices, config, new_devices, allocated, found, prev, env, request>>

\* blocking.rs:104-120 inside 75-84: one iteration of the file loop of
\* get_status_all; after the last file of a device the map is pushed and the
\* next device started; a probe error returns from the whole call.
ProbeFile(p) ==
    /\ pc[p] = "probe"
    /\ LET i == CurDev(p)
           device == devices[i]
           j == CurFile(p)
           file == device.dev_files[j]
       IN  \E res \in OpenOutcomes(env.tracked, HeldFiles, file) :
            LET st == get_device_status(res)
                map == MarkFile(LocalMap(status_map, p), device, file, st.status)
            IN  /\ probed' = [probed EXCEPT ![p][i] = Append(@, res)]
                /\ env' = AfterOpen(env, file, res)
                /\ IF st.err
                   THEN /\ pc' = [pc EXCEPT ![p] = "failed"]
                        /\ result' = [result EXCEPT ![p] = Err(st.raw)]
                        /\ status_map' = [status_map EXCEPT ![p] = <<>>]
                        /\ new_devices' = [new_devices EXCEPT ![p] = <<>>]
                   ELSE IF j < Len(device.dev_files)
                   THEN /\ status_map' = [status_map EXCEPT ![p] = map]
                        /\ UNCHANGED <<pc, result, new_devices>>
                   ELSE /\ new_devices' = [new_devices EXCEPT ![p] =
                                Append(@, [device |-> device, statuses |-> map])]
                        /\ IF i < Len(devices)
                           THEN /\ status_map' = [status_map EXCEPT ![p] =
                                        new_status_map(devices[i + 1])]
                                /\ UNCHANGED pc
                           ELSE /\ status_map' = [status_map EXCEPT ![p] = <<>>]
                                /\ pc' = [pc EXCEPT ![p] = "resolved"]
                        /\ UNCHANGED result
    /\ UNCHANGED <<devices, config, allocated, found, prev, request>>

\* find.rs:78-94: find_devices_in is entered with the snapshot and seeds the
\* committed cores, iterating every status map in the order its hashing gives.
\* The request is an argument of the call too; nothing reads it before line 96.
FindDevicesIn(p) ==
    /\ pc[p] = "resolved"
    /\ \E order \in StatusOrders(new_devices[p]) :
        allocated' = [allocated EXCEPT ![p] = SeedAllocated(new_devices[p], order)]
    /\ pc' = [pc EXCEPT ![p] = "seeded"]
    /\ UNCHANGED <<devices, config, probed, status_map, new_devices, found, result,
                   prev, env, request>>

\* find.rs:96: the request is read and the list of selected files created.
ReadConfig(p) ==
    /\ pc[p] = "seeded"
    /\ \E cfg \in Configs(devices) :
        config' = [config EXCEPT ![p] = cfg]
    /\ found' = [found EXCEPT ![p] = NewFound(@)]
    /\ pc' = [pc EXCEPT ![p] = "slot"]
    /\ UNCHANGED <<devices, probed, status_map, new_devices, allocated, result,
                   prev, env, request>>

\* find.rs:98-132: one iteration of the slot loop: the first suitable file
\* in scan order is pushed and committed, or the call returns the empty list.
Slot(p) ==
    /\ pc[p] = "slot"
    /\ SlotsLeft(config[p], found[p])
    /\ LET S == Candidates(config[p], allocated[p], new_devices[p])
       IN  IF S # {}
           THEN LET x == FirstFit(S)
                    device == new_devices[p][x[1]].device
                    file == device.dev_files[x[2]]
                IN  /\ found' = [found EXCEPT ![p] = Append(@, file)]
                    /\ allocated' = [allocated EXCEPT ![p] = Commit(@, device, file)]
                    /\ UNCHANGED <<pc, result>>
           ELSE /\ pc' = [pc EXCEPT ![p] = "returned"]
                /\ result' = [result EXCEPT ![p] = Ok(AbortResult(found[p]))]
                /\ UNCHANGED <<found, allocated>>
    /\ UNCHANGED <<devices, config, probed, status_map, new_devices, prev, env, request>>

\* find.rs:134: every slot is filled.
Return(p) ==
    /\ pc[p] = "slot"
    /\ ~SlotsLeft(config[p], found[p])
    /\ pc' = [pc EXCEPT ![p] = "returned"]
    /\ result' = [result EXCEPT ![p] = Ok(found[p])]
    /\ UNCHANGED <<devices, config, probed, status_map, new_devices, allocated, found,
                   prev, env, request>>

Next ==
    \/ \E p \in Procs : ExpandStatus(p)
    \/ \E p \in Procs : ProbeFile(p)
    \/ \E p \in Procs : FindDevicesIn(p)
    \/ \E p \in Procs : ReadConfig(p)
    \/ \E p \in Procs : Slot(p)
    \/ \E p \in Procs : Return(p)

Spec == Init /\ [][Next]_vars

\* ------------------------------------------- repeated calls on one snapshot
\* The topologies of one device that has fewer than MaxFiles files, and the
\* one of the tests.
CallTopologies ==
    {t \in Topologies : Len(t) = 1 /\ TotalFiles(t) < MaxFiles} \cup {TestTopology}

InitCalls ==
    /\ devices \in CallTopologies
    /\ InitProc({"p1"})
    /\ env = AnyConsumers
    /\ request = NoBuilder

\* find.rs:152-174: the caller keeps the snapshot and calls find_devices_in
\* on it again; the locals of the call that returned are dead.
CallAgain(p) ==
    /\ pc[p] = "returned"
    /\ prev' = [prev EXCEPT ![p] =
                    [called |-> TRUE, config |-> config[p], result |-> result[p]]]
    /\ result' = [result EXCEPT ![p] = NoResult]
    /\ pc' = [pc EXCEPT ![p] = "resolved"]
    /\ UNCHANGED <<devices, config, probed, status_map, new_devices, allocated, found,
                   env, request>>

NextCalls ==
    \/ Next
    \/ \E p \in Procs : CallAgain(p)

SpecCalls == InitCalls /\ [][NextCalls]_vars

\* ------------------------------------------- two processes, held files known
\* Two processes call find_devices on one device; other consumers hold a set
\* of its files open from before the first probe on.
RaceTopologies ==
    {<<Device(0, "Warboy", 2, files)>> :
        files \in {fs \in SUBSET FileKinds(0, 2) : Cardinality(fs) \in 1..3}}

InitRace ==
    /\ devices \in RaceTopologies
    /\ InitProc(Procs)
    /\ \E held \in SUBSET Range(devices[1].dev_files) : env = Holding(held)
    /\ request = NoBuilder

\* The caller opens the files find_devices returned and keeps them open; the
\* open of a file that is held by then fails.
Acquire(p) ==
    /\ pc[p] = "returned"
    /\ result[p].files # <<>>
    /\ pc' = [pc EXCEPT ![p] =
                  IF Range(result[p].files) \cap HeldFiles = {}
                  THEN "acquired" ELSE "refused"]
    /\ UNCHANGED <<devices, config, probed, status_map, new_devices, allocated, found,
                   result, prev, env, request>>

NextRace ==
    \/ Next
    \/ \E p \in Procs : Acquire(p)

SpecRace == InitRace /\ [][NextRace]_vars

\* ------------------------------------------------------- building requests
\* The variables a builder call does not touch.
call_vars ==
    <<devices, pc, config, probed, status_map, new_devices, allocated, found,
      result, prev, env>>

\* No process runs; a request is about to be built.
InitBuilder ==
    /\ devices = <<>>
    /\ InitProc({})
    /\ env = AnyConsumers
    /\ request = [state |-> "start", value |-> warboy, calls |-> <<>>]

\* find.rs:16-23: DeviceConfig::warboy() gives the builder.
CallWarboy ==
    /\ request.state = "start"
    /\ request' = [state |-> "builder", value |-> warboy, calls |-> <<"warboy">>]
    /\ UNCHANGED call_vars

\* find.rs:26-30: DeviceConfig::default().
CallDefault ==
    /\ request.state = "start"
    /\ request' = [state |-> "config", value |-> DefaultConfig, calls |-> <<"default">>]
    /\ UNCHANGED call_vars

\* find.rs:34-37.
CallMulticore ==
    /\ request.state = "builder"
    /\ Len(request.calls) <= MaxOverrides
    /\ request' = [request EXCEPT !.value = multicore(@), !.calls = Append(@, "multicore")]
    /\ UNCHANGED call_vars

\* find.rs:39-42.
CallFused ==
    /\ request.state = "builder"
    /\ Len(request.calls) <= MaxOverrides
    /\ request' = [request EXCEPT !.value = fused(@), !.calls = Append(@, "fused")]
    /\ UNCHANGED call_vars

\* find.rs:44-47: count(n) ends the chain with the request.
CallCount ==
    /\ request.state = "builder"
    /\ \E n \in 0..MaxRequested :
        request' = [state |-> "config", value |-> count(request.value, n),
                    calls |-> Append(request.calls, "count")]
    /\ UNCHANGED call_vars

\* find.rs:49-51: build() ends the chain with the request.
CallBuild ==
    /\ request.state = "builder"
    /\ request' = [state |-> "config", value |-> build(request.value),
                   calls |-> Append(request.calls, "build")]
    /\ UNCHANGED call_vars

NextBuilder ==
    \/ CallWarboy
    \/ CallDefault
    \/ CallMulticore
    \/ CallFused
    \/ CallCount
    \/ CallBuild

SpecBuilder == InitBuilder /\ [][NextBuilder]_vars

\* ------------------------------------------------------ reading the state
\* The device a file belongs to, and its position in the device list.
DevPos(f) == CHOOSE i \in DOMAIN devices : devices[i].device_index = f.device_index

DeviceOfFile(f) == devices[DevPos(f)]

FilePos(f) == CHOOSE j \in DOMAIN DeviceOfFile(f).dev_files : DeviceOfFile(f).dev_files[j] = f

\* The cores a file gives access to: its index list, and every core of the
\* device for the whole-device file.
Covered(f) ==
    Range(f.indices) \cup (IF f.mode = "MultiCore" THEN Range(DeviceOfFile(f).cores) ELSE {})

\* The cores of the device at position i that the snapshot of p marks
\* non-Available.
SnapshotOccupied(p, i) ==
    {c \in DOMAIN new_devices[p][i].statuses : new_devices[p][i].statuses[c] # Available}

\* The open failed with "resource busy".
Busy(res) == ~res.ok /\ res.raw = <<EBUSY>>

\* The open failed with anything else.
OtherError(res) == ~res.ok /\ res.raw # <<EBUSY>>

Succeeded(p) == result[p].kind = "Ok" /\ result[p].files # <<>>

\* ------------------------------------------------------------------ claims
\* C1: no double allocation. In a non-empty result any two files of the same
\* device cover disjoint cores, and no file covers a core the snapshot marks
\* non-Available.
NoDoubleAllocation ==
    \A p \in Procs :
        Succeeded(p) =>
            LET fs == result[p].files
            IN  /\ \A a, b \in DOMAIN fs :
                      (a < b /\ fs[a].device_index = fs[b].device_index)
                          => Covered(fs[a]) \cap Covered(fs[b]) = {}
                /\ \A a \in DOMAIN fs :
                      Covered(fs[a]) \cap SnapshotOccupied(p, DevPos(fs[a])) = {}

\* Two files of one device are returned while another core of that device is
\* occupied.
NoDoubleAllocationWitness ==
    \E p \in Procs :
        /\ Succeeded(p)
        /\ \E a, b \in DOMAIN result[p].files :
              /\ a < b
              /\ result[p].files[a].device_index = result[p].files[b].device_index
              /\ SnapshotOccupied(p, DevPos(result[p].files[a])) # {}

\* C2: all or nothing. A returned list is empty or has exactly count files;
\* when a slot cannot be filled the files selected before are dropped.
AllOrNothing ==
    \A p \in Procs :
        pc[p] = "returned" =>
            /\ result[p].kind = "Ok"
            /\ Len(result[p].files) \in {0, config[p].count}
            /\ Len(found[p]) < config[p].count => result[p].files = <<>>
            /\ Len(found[p]) = config[p].count => result[p].files = found[p]

\* A call that filled a slot and then failed a later one returned nothing.
AllOrNothingWitness ==
    \E p \in Procs :
        /\ pc[p] = "returned"
        /\ found[p] # <<>>
        /\ Len(found[p]) < config[p].count
        /\ result[p].files = <<>>

\* The device files of all devices in scan order.
RECURSIVE AllFiles(_)
AllFiles(devs) ==
    IF devs = <<>> THEN <<>> ELSE devs[1].dev_files \o AllFiles(Tail(devs))

\* Every core of every device has its Single file.
SinglesPartition ==
    \A i \in DOMAIN devices :
        \A c \in Range(devices[i].cores) :
            \E j \in DOMAIN devices[i].dev_files :
                /\ devices[i].dev_files[j].mode = "Single"
                /\ devices[i].dev_files[j].indices = <<c>>

\* The Single files of the requested architecture whose core the snapshot of
\* p marks Available, in scan order.
FreeSingles(p) ==
    LET free(f) ==
            /\ f.mode = "Single"
            /\ DeviceOfFile(f).arch = config[p].arch
            /\ Range(f.indices) \cap SnapshotOccupied(p, DevPos(f)) = {}
    IN  SelectSeq(AllFiles(devices), free)

\* C3: first fit in discovery order for Single mode. When the Single files
\* partition each device's cores, a Single request for n files returns the
\* first n free Single files of the architecture in scan order, or the empty
\* list when there are fewer than n.
FirstFitSingle ==
    \A p \in Procs :
        (pc[p] = "returned" /\ config[p].mode = "Single" /\ SinglesPartition) =>
            result[p] =
                Ok(IF config[p].count <= Len(FreeSingles(p))
                   THEN SubSeq(FreeSingles(p), 1, config[p].count)
                   ELSE <<>>)

\* A Single request on two devices skipped an occupied core and returned
\* files of both devices, leaving a free file unused.
FirstFitSingleWitness ==
    \E p \in Procs :
        /\ pc[p] = "returned" /\ config[p].mode = "Single" /\ SinglesPartition
        /\ Len(devices) = 2
        /\ SnapshotOccupied(p, 1) # {}
        /\ Len(result[p].files) >= 2
        /\ Len(result[p].files) < Len(FreeSingles(p))
        /\ result[p].files[1].device_index # result[p].files[Len(result[p].files)].device_index

\* Scan order of two (device position, file position) pairs.
Before(x, y) == x[1] < y[1] \/ (x[1] = y[1] /\ x[2] < y[2])

\* C4: result ordering. The files of a non-empty result appear in strictly
\* increasing (device position, file position) order, so none appears twice.
ResultOrdered ==
    \A p \in Procs :
        Succeeded(p) =>
            \A a, b \in DOMAIN result[p].files :
                a < b => Before(<<DevPos(result[p].files[a]), FilePos(result[p].files[a])>>,
                                <<DevPos(result[p].files[b]), FilePos(result[p].files[b])>>)

\* A result of three files: the scan of the third slot restarted at the first
\* device, passed the two files already taken and took a file of a later
\* device.
ResultOrderedWitness ==
    \E p \in Procs :
        /\ Succeeded(p)
        /\ Len(result[p].files) = 3
        /\ DevPos(result[p].files[1]) = 1
        /\ DevPos(result[p].files[3]) > 1

\* C5: MultiCore exclusivity. A step of a MultiCore request that selects a
\* file selects a MultiCore file of a device whose committed set is empty:
\* the snapshot marks none of its cores and no file of it was selected before.
MultiCoreExclusive ==
    [][\A p \in Procs :
          (pc[p] = "slot" /\ config[p].mode = "MultiCore"
              /\ Len(found'[p]) = Len(found[p]) + 1) =>
             LET f == found'[p][Len(found'[p])]
             IN  /\ f.mode = "MultiCore"
                 /\ allocated[p][f.device_index] = {}
                 /\ SnapshotOccupied(p, DevPos(f)) = {}
                 /\ \A k \in DOMAIN found[p] : found[p][k].device_index # f.device_index]_vars

\* A MultiCore request passed over a device of the architecture that has a
\* MultiCore file and an occupied core, and returned the file of a later one.
MultiCoreExclusiveWitness ==
    \E p \in Procs :
        /\ Succeeded(p)
        /\ config[p].mode = "MultiCore"
        /\ \E i \in DOMAIN devices :
              /\ devices[i].arch = config[p].arch
              /\ \E j \in DOMAIN devices[i].dev_files : devices[i].dev_files[j].mode = "MultiCore"
              /\ SnapshotOccupied(p, i) # {}
              /\ i < DevPos(result[p].files[1])

\* C6: status aggregation for MultiCore. In every map get_status_all returned,
\* a MultiCore file probed busy leaves every core of its device Occupied.
MultiCoreBusyOccupiesAll ==
    \A p \in Procs :
        \A i \in DOMAIN new_devices[p] :
            \A j \in DOMAIN probed[p][i] :
                (Busy(probed[p][i][j]) /\ devices[i].dev_files[j].mode = "MultiCore") =>
                    \A c \in Range(devices[i].cores) :
                        new_devices[p][i].statuses[c].occupied

\* A returned map of a device with two or more cores whose MultiCore file was
\* the only busy file.
MultiCoreBusyOccupiesAllWitness ==
    \E p \in Procs :
        \E i \in DOMAIN new_devices[p] :
            /\ Len(devices[i].cores) >= 2
            /\ Len(devices[i].dev_files) >= 2
            /\ \A j \in DOMAIN probed[p][i] :
                  Busy(probed[p][i][j]) <=> devices[i].dev_files[j].mode = "MultiCore"
            /\ \E j \in DOMAIN probed[p][i] : Busy(probed[p][i][j])

\* C7: resolver exactness. A returned map has one entry per core of the
\* device; a core is Occupied exactly when a busy file lists it or a busy file
\* of the device is MultiCore, and is Available otherwise.
ResolverExact ==
    \A p \in Procs :
        \A i \in DOMAIN new_devices[p] :
            LET st == new_devices[p][i].statuses
                hit(c) ==
                    \E j \in DOMAIN probed[p][i] :
                        /\ Busy(probed[p][i][j])
                        /\ \/ c \in Range(devices[i].dev_files[j].indices)
                           \/ devices[i].dev_files[j].mode = "MultiCore"
            IN  /\ new_devices[p][i].device = devices[i]
                /\ Len(probed[p][i]) = Len(devices[i].dev_files)
                /\ DOMAIN st = Range(devices[i].cores)
                /\ \A c \in DOMAIN st :
                      /\ st[c].occupied <=> hit(c)
                      /\ ~st[c].occupied => st[c] = Available

\* A returned map with two busy files on different cores and a core left
\* Available.
ResolverExactWitness ==
    \E p \in Procs :
        \E i \in DOMAIN new_devices[p] :
            /\ \E c \in Range(devices[i].cores) : new_devices[p][i].statuses[c] = Available
            /\ \E j, k \in DOMAIN probed[p][i] :
                  /\ j < k
                  /\ Busy(probed[p][i][j]) /\ Busy(probed[p][i][k])
                  /\ Range(devices[i].dev_files[j].indices)
                        \cap Range(devices[i].dev_files[k].indices) = {}

\* The probes of p that failed with something other than "resource busy".
ProbeErrors(p) ==
    {x \in (DOMAIN probed[p]) \X (1..TotalFiles(devices)) :
        x[2] \in DOMAIN probed[p][x[1]] /\ OtherError(probed[p][x[1]][x[2]])}

\* C8: probe errors. A probe that fails with anything but "resource busy" is
\* the last probe of the call; the call returns that error, with no status
\* map of any device and no allocation. Successful and busy probes never make
\* the call fail.
ProbeErrorAborts ==
    \A p \in Procs :
        /\ \A x \in ProbeErrors(p) :
              /\ pc[p] = "failed"
              /\ result[p] = Err(probed[p][x[1]][x[2]].raw)
              /\ new_devices[p] = <<>> /\ status_map[p] = <<>>
              /\ found[p] = <<>> /\ allocated[p] = <<>>
              /\ x[2] = Len(probed[p][x[1]])
              /\ \A i \in DOMAIN probed[p] : i > x[1] => probed[p][i] = <<>>
        /\ (result[p].kind = "Err" /\ probed[p] # <<>>) => ProbeErrors(p) # {}
        /\ pc[p] \in {"resolved", "slot", "returned"} =>
              /\ ProbeErrors(p) = {}
              /\ Len(new_devices[p]) = Len(devices)

\* The call failed on a file of the second device, after the first device was
\* resolved with a busy file and a free file.
ProbeErrorAbortsWitness ==
    \E p \in Procs :
        /\ pc[p] = "failed"
        /\ \E x \in ProbeErrors(p) : x[1] = 2
        /\ \E j, k \in DOMAIN probed[p][1] : Busy(probed[p][1][j]) /\ probed[p][1][k].ok

\* C9: mode filtering. Every file selected or returned has the requested
\* mode.
ModeFilter ==
    \A p \in Procs :
        /\ \A k \in DOMAIN found[p] : found[p][k].mode = config[p].mode
        /\ \A k \in DOMAIN result[p].files : result[p].files[k].mode = config[p].mode

\* The returned file stands behind a free file of another mode in its device.
ModeFilterWitness ==
    \E p \in Procs :
        /\ Succeeded(p)
        /\ LET f == result[p].files[1]
               d == DeviceOfFile(f)
           IN  /\ FilePos(f) > 1
               /\ d.dev_files[1].mode # config[p].mode
               /\ SnapshotOccupied(p, DevPos(f)) = {}

\* C10: architecture filtering. Every file selected or returned belongs to a
\* device of the requested architecture, and a request for one or more files
\* returns the empty list when no device has that architecture.
ArchFilter ==
    \A p \in Procs :
        /\ \A k \in DOMAIN found[p] : DeviceOfFile(found[p][k]).arch = config[p].arch
        /\ \A k \in DOMAIN result[p].files :
              DeviceOfFile(result[p].files[k]).arch = config[p].arch
        /\ (pc[p] = "returned" /\ config[p].count >= 1
               /\ \A i \in DOMAIN devices : devices[i].arch # config[p].arch)
              => result[p] = Ok(<<>>)

\* The returned file belongs to the second device; the first device has a
\* free file of the requested mode but another architecture.
ArchFilterWitness ==
    \E p \in Procs :
        /\ Succeeded(p)
        /\ DevPos(result[p].files[1]) = 2
        /\ devices[1].arch # config[p].arch
        /\ SnapshotOccupied(p, 1) = {}
        /\ \E j \in DOMAIN devices[1].dev_files : devices[1].dev_files[j].mode = config[p].mode

\* The (device position, file position) pairs of the files a request of p may
\* be given: requested mode and architecture, no covered core non-Available
\* in the snapshot.
FreeFiles(p) ==
    {x \in UNION {{<<i, j>> : j \in DOMAIN devices[i].dev_files} : i \in DOMAIN devices} :
        LET f == devices[x[1]].dev_files[x[2]]
        IN  /\ f.mode = config[p].mode
            /\ devices[x[1]].arch = config[p].arch
            /\ Covered(f) \cap SnapshotOccupied(p, x[1]) = {}}

\* Some count of the free files are pairwise core-disjoint.
Feasible(p) ==
    \E S \in SUBSET FreeFiles(p) :
        /\ Cardinality(S) = config[p].count
        /\ \A x, y \in S :
              (x # y /\ x[1] = y[1])
                  => Covered(devices[x[1]].dev_files[x[2]])
                         \cap Covered(devices[y[1]].dev_files[y[2]]) = {}

\* The data-model invariants: the Single files cover every core, and a device
\* has at most one whole-device file.
Admissible ==
    /\ SinglesPartition
    /\ \A i \in DOMAIN devices :
          Cardinality({j \in DOMAIN devices[i].dev_files :
                          devices[i].dev_files[j].mode = "MultiCore"}) <= 1

\* No two core-group files of one device share a core.
FusionDisjoint ==
    \A i \in DOMAIN devices :
        \A j, k \in DOMAIN devices[i].dev_files :
            (/\ j # k
             /\ devices[i].dev_files[j].mode = "Fusion"
             /\ devices[i].dev_files[k].mode = "Fusion")
                => Range(devices[i].dev_files[j].indices)
                       \cap Range(devices[i].dev_files[k].indices) = {}

\* C11: greedy completeness. On a topology that satisfies the data-model
\* invariants and whose core-group files do not overlap, a call returns count
\* files whenever count pairwise core-disjoint free files of the requested
\* mode and architecture exist.
GreedyComplete ==
    \A p \in Procs :
        (pc[p] = "returned" /\ Admissible /\ FusionDisjoint /\ Feasible(p))
            => Len(result[p].files) = config[p].count

\* Two core groups are returned from a snapshot with an occupied core
\* elsewhere.
GreedyCompleteWitness ==
    \E p \in Procs :
        /\ pc[p] = "returned"
        /\ Admissible /\ FusionDisjoint /\ Feasible(p)
        /\ config[p].mode = "Fusion"
        /\ config[p].count >= 2
        /\ Len(result[p].files) = config[p].count

\* C11 as stated, for overlapping core groups too: whenever count pairwise
\* core-disjoint free files exist, the call returns count files.
GreedyCompleteOverlapping ==
    \A p \in Procs :
        (pc[p] = "returned" /\ Admissible /\ Feasible(p))
            => Len(result[p].files) = config[p].count

\* C14: zero count. A request of count 0 returns the empty list as a
\* success on every topology and snapshot; no slot is scanned, so nothing is
\* selected and no core is committed beyond the snapshot's.
ZeroCount ==
    \A p \in Procs :
        (pc[p] \in {"slot", "returned"} /\ config[p].count = 0) =>
            /\ found[p] = <<>>
            /\ \A i \in DOMAIN new_devices[p] :
                  allocated[p][new_devices[p][i].device.device_index]
                      = SnapshotOccupied(p, i)
            /\ pc[p] = "returned" => result[p] = Ok(<<>>)

\* A count-0 request returned on a snapshot in which every core of every
\* device is occupied.
ZeroCountWitness ==
    \E p \in Procs :
        /\ pc[p] = "returned"
        /\ config[p].count = 0
        /\ result[p] = Ok(<<>>)
        /\ devices # <<>>
        /\ \A i \in DOMAIN devices : SnapshotOccupied(p, i) = Range(devices[i].cores)

\* The committed set of every device is the snapshot's non-Available cores
\* with the cores covered by the files selected so far.
CommittedExact(p, alloc, fnd) ==
    \A i \in DOMAIN devices :
        alloc[devices[i].device_index]
            = SnapshotOccupied(p, i)
              \cup UNION {Covered(fnd[k]) :
                            k \in {h \in DOMAIN fnd :
                                      fnd[h].device_index = devices[i].device_index}}

\* C17: committed-set invariant. At every point of a call each device's
\* committed set is its non-Available cores in the snapshot united with the
\* cores covered by the files selected so far (all cores of the device for a
\* MultiCore file); a step only grows the sets, and selecting a file leaves
\* the committed sets of the other devices as they were.
CommittedSet ==
    [][\A p \in Procs :
          (pc[p] = "slot" /\ pc'[p] \in {"slot", "returned"}) =>
              /\ CommittedExact(p, allocated[p], found[p])
              /\ CommittedExact(p, allocated'[p], found'[p])
              /\ \A i \in DOMAIN devices :
                    LET idx == devices[i].device_index
                    IN  /\ allocated[p][idx] \subseteq allocated'[p][idx]
                        /\ (found'[p] # found[p]
                             /\ found'[p][Len(found'[p])].device_index # idx)
                               => allocated'[p][idx] = allocated[p][idx]]_vars

\* A MultiCore file is selected on the second device after one on the first.
CommittedSetWitness ==
    \E p \in Procs :
        /\ pc[p] = "slot"
        /\ Len(found[p]) = 2
        /\ found[p][2].mode = "MultiCore"
        /\ found[p][1].device_index # found[p][2].device_index
        /\ Len(found[p][2].indices) = 0
        /\ Cardinality(allocated[p][found[p][2].device_index]) >= 1

\* The file at position j of the device at position i lists core c or is the
\* whole-device file.
Covers(i, j, c) ==
    \/ c \in Range(devices[i].dev_files[j].indices)
    \/ devices[i].dev_files[j].mode = "MultiCore"

\* The positions of the files of device i that p probed busy and that cover c.
BusyCovering(p, i, c) ==
    {j \in DOMAIN probed[p][i] : Busy(probed[p][i][j]) /\ Covers(i, j, c)}

\* The map holds, for every core, the last busy file covering it, and
\* Available where no busy file covers it.
Attributed(map, p, i) ==
    \A c \in DOMAIN map :
        IF BusyCovering(p, i, c) = {}
        THEN map[c] = Available
        ELSE LET j == CHOOSE k \in BusyCovering(p, i, c) :
                          \A h \in BusyCovering(p, i, c) : h <= k
             IN  map[c] = Occupied(to_string(devices[i].dev_files[j]))

\* C20: occupant attribution. In the map get_status_all builds, and in the
\* maps it has returned, the occupant of an Occupied core is the last file in the
\* device's file order that was probed busy and lists the core or is
\* MultiCore; a later free file does not reset the core to Available.
OccupantAttribution ==
    \A p \in Procs :
        pc[p] \in {"probe", "resolved"} =>
            /\ \A i \in DOMAIN new_devices[p] :
                  Attributed(new_devices[p][i].statuses, p, i)
            /\ pc[p] = "probe" => Attributed(status_map[p], p, CurDev(p))

\* A returned map records, for a core covered by two busy files and a later
\* free one, the second busy file.
OccupantAttributionWitness ==
    \E p \in Procs : \E i \in DOMAIN new_devices[p] :
        \E c \in DOMAIN new_devices[p][i].statuses :
            \E j1, j2, j3 \in DOMAIN probed[p][i] :
                /\ j1 < j2 /\ j2 < j3
                /\ Covers(i, j1, c) /\ Covers(i, j2, c) /\ Covers(i, j3, c)
                /\ Busy(probed[p][i][j1]) /\ Busy(probed[p][i][j2])
                /\ probed[p][i][j3].ok
                /\ new_devices[p][i].statuses[c]
                       = Occupied(to_string(devices[i].dev_files[j2]))

\* The mode overrides of a builder chain, in call order.
Overrides(calls) ==
    LET override(m) == m \in {"fused", "multicore"} IN SelectSeq(calls, override)

\* C15: request construction. A builder without a mode override has mode
\* Single, otherwise the mode of its last override (fused: Fusion, multicore:
\* MultiCore); build() without count() gives count 1; the architecture is the
\* default one throughout; and the Default request is the default
\* architecture with mode Fusion and count 1.
RequestDefaults ==
    /\ request.state \in {"builder", "config"} =>
          request.value.arch = "Warboy"
    /\ (request.state \in {"builder", "config"} /\ request.calls[1] = "warboy") =>
          LET o == Overrides(request.calls)
          IN  /\ o = <<>> => request.value.mode = "Single"
              /\ (o # <<>> /\ o[Len(o)] = "fused") => request.value.mode = "Fusion"
              /\ (o # <<>> /\ o[Len(o)] = "multicore") => request.value.mode = "MultiCore"
              /\ request.calls[Len(request.calls)] # "count" => request.value.count = 1
    /\ request.calls = <<"default">> =>
          request.value = [arch |-> "Warboy", mode |-> "Fusion", count |-> 1]

\* A request built with build() after fused() and then multicore().
RequestDefaultsWitness ==
    /\ request.state = "config"
    /\ request.calls = <<"warboy", "fused", "multicore", "build">>
    /\ request.value = [arch |-> "Warboy", mode |-> "MultiCore", count |-> 1]

\* C12: determinism. On one device list and one snapshot a call with the
\* request of the call before it returns the same list, the same files in the
\* same order, whatever the orders in which the two calls iterated the hashed
\* status maps.
Determinism ==
    \A p \in Procs :
        (pc[p] = "returned" /\ prev[p].called /\ prev[p].config = config[p])
            => result[p] = prev[p].result

\* The same request returned files twice on a snapshot in which a device has
\* two non-Available cores, so that its status map has more than one order
\* of the entries that seed the committed set.
DeterminismWitness ==
    \E p \in Procs :
        /\ pc[p] = "returned"
        /\ prev[p].called
        /\ prev[p].config = config[p]
        /\ Succeeded(p)
        /\ result[p] = prev[p].result
        /\ \E i \in DOMAIN devices : Cardinality(SnapshotOccupied(p, i)) >= 2

\* What find_devices_in returns when it starts from the snapshot alone.
RECURSIVE Greedy(_, _, _, _)
Greedy(cfg, devs, alloc, selected) ==
    IF ~SlotsLeft(cfg, selected) THEN selected
    ELSE LET S == Candidates(cfg, alloc, devs)
         IN  IF S = {} THEN AbortResult(selected)
             ELSE LET x == FirstFit(S)
                      device == devs[x[1]].device
                      file == device.dev_files[x[2]]
                  IN  Greedy(cfg, devs, Commit(alloc, device, file), Append(selected, file))

FirstCall(cfg, p) ==
    Greedy(cfg, new_devices[p],
           [idx \in {devices[i].device_index : i \in DOMAIN devices} |->
               SnapshotOccupied(p, DevPos([device_index |-> idx]))],
           <<>>)

\* C16: call-local commitments. No step of find_devices_in changes the
\* device list or the snapshot, and whatever calls came before on the same
\* snapshot, a call returns what it would return as the first call.
CallLocal ==
    [][\A p \in Procs :
          /\ pc[p] \in {"resolved", "seeded", "slot", "returned"} =>
                (devices' = devices /\ new_devices'[p] = new_devices[p])
          /\ (pc[p] = "slot" /\ pc'[p] = "returned") =>
                result'[p] = Ok(FirstCall(config[p], p))]_vars

\* On the snapshot of the tests with every core free, Fusion count 2 returns
\* both core groups after Single count 4 returned the four Single files.
CallLocalWitness ==
    \E p \in Procs :
        /\ devices = TestTopology
        /\ pc[p] = "returned"
        /\ prev[p].called
        /\ prev[p].config = count(warboy, 4)
        /\ Len(prev[p].result.files) = 4
        /\ config[p] = count(fused(warboy), 2)
        /\ Len(result[p].files) = 2

\* C13: time of check, time of use. Handing a file out does not make it busy:
\* while neither process has acquired its files, two calls with the same
\* request are handed the same list, so both hold the same files in hand.
CheckThenUseRace ==
    \A p, q \in Procs :
        (/\ pc[p] = "returned" /\ pc[q] = "returned"
         /\ config[p] = config[q])
            => result[p] = result[q]

\* Both processes were handed the same device file and neither has acquired
\* it yet.
CheckThenUseRaceWitness ==
    \E p, q \in Procs :
        /\ p # q
        /\ pc[p] = "returned" /\ pc[q] = "returned"
        /\ Range(result[p].files) \cap Range(result[q].files) # {}

\* C18: fresh-probe exclusivity. A file find_devices returns was not probed
\* busy in that call and shares no core with a file probed busy in that call;
\* and a file that another consumer holds from before the probes on is never
\* returned, nor is a file sharing a core with it.
FreshProbeExclusive ==
    \A p \in Procs :
        pc[p] \in {"returned", "acquired", "refused"} =>
            \A a \in DOMAIN result[p].files :
                LET f == result[p].files[a]
                    i == DevPos(f)
                IN  /\ \A j \in DOMAIN probed[p][i] :
                          Busy(probed[p][i][j]) =>
                              /\ f # devices[i].dev_files[j]
                              /\ Covered(f) \cap Covered(devices[i].dev_files[j]) = {}
                    /\ \A h \in env.held :
                          /\ f # h
                          /\ h.device_index = f.device_index
                                 => Covered(f) \cap Covered(h) = {}

\* A file is returned from a device on which another consumer holds a file
\* that the call probed busy.
FreshProbeExclusiveWitness ==
    \E p \in Procs :
        /\ pc[p] = "returned"
        /\ Succeeded(p)
        /\ \E h \in env.held :
              /\ h.device_index = result[p].files[1].device_index
              /\ Busy(probed[p][DevPos(h)][FilePos(h)])

\* The maps of p hold exactly what the probes of p found: a core is
\* non-Available when a file p probed busy covers it, and only then.
OwnProbesOnly(p) ==
    /\ \A i \in DOMAIN new_devices[p] :
          \A c \in DOMAIN new_devices[p][i].statuses :
              new_devices[p][i].statuses[c] # Available <=> BusyCovering(p, i, c) # {}
    /\ pc[p] = "probe" =>
          \A c \in DOMAIN status_map[p] :
              status_map[p][c] # Available <=> BusyCovering(p, CurDev(p), c) # {}

\* C19: snapshot isolation. With two resolver runs interleaved probe by
\* probe, the maps of a run change only in a step that adds one of its own
\* probes, and hold exactly what its own probes found.
SnapshotIsolation ==
    [][\A p \in Procs :
          /\ probed'[p] = probed[p] =>
                (status_map'[p] = status_map[p] /\ new_devices'[p] = new_devices[p])
          /\ pc'[p] \in {"probe", "resolved"} => OwnProbesOnly(p)']_vars

\* Both runs are between probes of the same device; one has marked a core
\* Occupied that the other, which is behind, still has Available.
SnapshotIsolationWitness ==
    \E p, q \in Procs :
        /\ pc[p] = "probe" /\ pc[q] = "probe"
        /\ CurDev(p) = CurDev(q)
        /\ CurFile(q) < CurFile(p)
        /\ \E c \in DOMAIN status_map[p] :
              status_map[p][c] # Available /\ status_map[q][c] = Available

====
